---------------------------- MODULE Spec2Model ----------------------------
(***************************************************************************)
(* Model of app.py, the Streamlit dashboard "Establecimientos de Salud en  *)
(* Chile".  The script is one linear run: page header, catalog search,     *)
(* CSV resource selection, load, column detection, text repair, region     *)
(* ordering, sidebar, metrics, national chart, regional chart, commune map *)
(* with its diagnostics panel, detail table, conclusion.                   *)
(*                                                                         *)
(* Python strings are sequences of Unicode code points (natural numbers),  *)
(* so that strip, lower, substring search, rsplit, encode and decode are   *)
(* computed character by character.  Python's None is the value None       *)
(* below, which is no string.  Coordinates are in units of 1/10000 degree. *)
(*                                                                         *)
(* The tables the model loads have four columns with distinct names, an    *)
(* integer region code and non-empty text in the three glosa columns, as   *)
(* read_csv returns them for a well-formed payload; missing cells (NaN)    *)
(* and repeated column names are outside the model.  Where pandas sorts    *)
(* with its default, unstable, quicksort the model admits every order of   *)
(* the rows with equal keys.                                               *)
(***************************************************************************)
EXTENDS Integers, Sequences, FiniteSets, TLC

\* ------------------------------------------------------------------------
\* Bounds of the model
\* ------------------------------------------------------------------------
MaxRows == 3
MaxComunas == 22
MaxCols == 2
MaxPosibles == 2
MaxTexto == 3

\* ------------------------------------------------------------------------
\* Python values and string primitives
\* ------------------------------------------------------------------------
None == <<-1>>

Truthy(v) == v # None /\ v # <<>>

Min(a, b) == IF a <= b THEN a ELSE b

Range(s) == {s[i] : i \in 1..Len(s)}

Head_n(s, n) == SubSeq(s, 1, Min(n, Len(s)))

RECURSIVE SumSeq(_)
SumSeq(s) == IF s = <<>> THEN 0 ELSE Head(s) + SumSeq(Tail(s))

Perms(n) == {p \in [1..n -> 1..n] : \A i, j \in 1..n : i # j => p[i] # p[j]}

SeqsUpTo(S, n) == UNION {[1..k -> S] : k \in 0..n}

\* str.lower() on the Basic Latin and Latin-1 letters; every other code
\* point the model uses has no lower-case mapping.
LowerChar(c) ==
  IF (c >= 65 /\ c <= 90) \/ (c >= 192 /\ c <= 222 /\ c # 215) THEN c + 32 ELSE c

Lower(s) == [i \in 1..Len(s) |-> LowerChar(s[i])]

\* The white space str.strip() removes, within Latin-1.
IsSpace(c) == c \in {9, 10, 11, 12, 13, 28, 29, 30, 31, 32, 133, 160}

RECURSIVE LStrip(_)
LStrip(s) == IF s # <<>> /\ IsSpace(Head(s)) THEN LStrip(Tail(s)) ELSE s

RECURSIVE RStrip(_)
RStrip(s) ==
  IF s # <<>> /\ IsSpace(s[Len(s)]) THEN RStrip(SubSeq(s, 1, Len(s) - 1)) ELSE s

Strip(s) == RStrip(LStrip(s))

\* p occurs in s at position i (1-based)
OccursAt(p, s, i) ==
  /\ i >= 1
  /\ i + Len(p) - 1 <= Len(s)
  /\ \A k \in 1..Len(p) : s[i + k - 1] = p[k]

\* Python's "p in s" for strings
Contains(p, s) == \E i \in 1..(Len(s) + 1) : OccursAt(p, s, i)

\* Python's string order: lexicographic by code point
RECURSIVE StrLess(_, _)
StrLess(a, b) ==
  IF b = <<>> THEN FALSE
  ELSE IF a = <<>> THEN TRUE
  ELSE IF Head(a) # Head(b) THEN Head(a) < Head(b)
  ELSE StrLess(Tail(a), Tail(b))

\* str(n) of a natural number: its decimal digits
RECURSIVE Digits(_)
Digits(n) == IF n < 10 THEN <<48 + n>> ELSE Digits(n \div 10) \o <<48 + (n % 10)>>

\* str(v): the text "None" for None, the string itself otherwise
Str(v) == IF v = None THEN <<78, 111, 110, 101>> ELSE v

\* ------------------------------------------------------------------------
\* Helpers of the script (section 4)
\* ------------------------------------------------------------------------

\* any(p in col for p in posibles), candidates tried in list order
RECURSIVE AlgunoEn(_, _)
AlgunoEn(posibles, col) ==
  IF posibles = <<>> THEN FALSE
  ELSE IF Contains(Head(posibles), col) THEN TRUE
  ELSE AlgunoEn(Tail(posibles), col)

\* Mutation of buscar_columna: the candidate must be a prefix of the column
RECURSIVE buscar_columna_prefijo(_, _)
buscar_columna_prefijo(columns, posibles) ==
  IF columns = <<>> THEN None
  ELSE IF \E k \in 1..Len(posibles) : OccursAt(posibles[k], Head(columns), 1)
       THEN Head(columns)
       ELSE buscar_columna_prefijo(Tail(columns), posibles)

\* buscar_columna(posibles), reading the table's columns
RECURSIVE buscar_columna(_, _)
buscar_columna(columns, posibles) ==
  IF columns = <<>> THEN None
  ELSE IF AlgunoEn(posibles, Head(columns)) THEN Head(columns)
  ELSE buscar_columna(Tail(columns), posibles)

\* texto.encode("latin-1"): one byte per code point, or None when a code
\* point is above 255 (UnicodeEncodeError)
Latin1Encode(texto) ==
  IF \E i \in 1..Len(texto) : texto[i] > 255 THEN None ELSE texto

IsCont(b) == b >= 128 /\ b <= 191

\* bytes.decode("utf-8"), strict: the decoded code points appended to acc,
\* or None when the bytes are not well-formed UTF-8 (UnicodeDecodeError)
RECURSIVE Utf8DecodeFrom(_, _)
Utf8DecodeFrom(b, acc) ==
  IF b = <<>> THEN acc
  ELSE LET c == b[1]
           n == Len(b)
       IN IF c < 128
          THEN Utf8DecodeFrom(Tail(b), Append(acc, c))
          ELSE IF c >= 194 /\ c <= 223 /\ n >= 2 /\ IsCont(b[2])
          THEN Utf8DecodeFrom(SubSeq(b, 3, n),
                              Append(acc, (c - 192) * 64 + (b[2] - 128)))
          ELSE IF /\ c >= 224 /\ c <= 239 /\ n >= 3
                  /\ IsCont(b[2]) /\ IsCont(b[3])
                  /\ (c = 224 => b[2] >= 160)
                  /\ (c = 237 => b[2] <= 159)
          THEN Utf8DecodeFrom(SubSeq(b, 4, n),
                              Append(acc, (c - 224) * 4096 + (b[2] - 128) * 64
                                          + (b[3] - 128)))
          ELSE IF /\ c >= 240 /\ c <= 244 /\ n >= 4
                  /\ IsCont(b[2]) /\ IsCont(b[3]) /\ IsCont(b[4])
                  /\ (c = 240 => b[2] >= 144)
                  /\ (c = 244 => b[2] <= 143)
          THEN Utf8DecodeFrom(SubSeq(b, 5, n),
                              Append(acc, (c - 240) * 262144 + (b[2] - 128) * 4096
                                          + (b[3] - 128) * 64 + (b[4] - 128)))
          ELSE None

Utf8Decode(b) == Utf8DecodeFrom(b, <<>>)

\* Mutation of arreglar_tildes: no except clause around the decode, the
\* failed decode's None escapes as the result
arreglar_tildes_sin_except(texto) ==
  IF Latin1Encode(texto) = None THEN texto ELSE Utf8Decode(Latin1Encode(texto))

\* arreglar_tildes(texto)
arreglar_tildes(texto) ==
  LET bytes == Latin1Encode(texto)
  IN IF bytes = None THEN texto
     ELSE IF Utf8Decode(bytes) = None THEN texto
     ELSE Utf8Decode(bytes)

\* Mutation of norm_key: the name is not trimmed
norm_key_sin_strip(s) == Lower(Str(s))

\* norm_key(s)
norm_key(s) == Lower(Strip(Str(s)))

\* ------------------------------------------------------------------------
\* State: the script's variables, the elements emitted so far, the inputs
\* ------------------------------------------------------------------------
VARIABLES
  pc,                 \* the section the run is at
  out,                \* the output elements emitted so far, in order
  fault,              \* the unhandled exception that ended the run, if any
  resp,               \* the catalog's answer to the search (line 24)
  payload,            \* the table the CSV resource holds, as read_csv parses it
  slider,             \* the session's value of the top-communes slider
  dataset,            \* line 30
  csv_url,            \* lines 35-39
  cargas,             \* the URLs pd.read_csv was called with, in order
  df,                 \* lines 48-55, 90
  col,                \* col_region_cod, col_region_nom, col_comuna_nom, col_estab_nom
  regiones_ordenadas, \* lines 95-100
  regiones_sidebar,   \* line 106
  region_label,       \* line 111
  region_sel,         \* line 112
  top_n_comunas,      \* line 114
  df_region,          \* line 121
  metricas,           \* the two values shown by lines 128-129
  conteo_nacional,    \* lines 137-144
  conteo_tipo,        \* lines 177-183
  conteo_comuna,      \* lines 256-262
  mapa_rows,          \* lines 264-277
  sin_coord,          \* lines 265, 279
  info,               \* the diagnostics panel of lines 295-300
  fn                  \* a direct call of a helper: its arguments and result

vars == <<pc, out, fault, resp, payload, slider, dataset, csv_url, cargas, df,
          col, regiones_ordenadas, regiones_sidebar, region_label, region_sel,
          top_n_comunas, df_region, metricas, conteo_nacional, conteo_tipo,
          conteo_comuna, mapa_rows, sin_coord, info, fn>>

\* the variables of the sections after the load
post == <<df, col, regiones_ordenadas, regiones_sidebar, region_label,
          region_sel, top_n_comunas, df_region, metricas, conteo_nacional,
          conteo_tipo, conteo_comuna, mapa_rows, sin_coord, info>>

\* the variables of the sections after the sidebar
tras_sidebar == <<metricas, conteo_nacional, conteo_tipo, conteo_comuna,
                  mapa_rows, sin_coord, info>>

inputs == <<resp, payload, slider, fn>>

\* ------------------------------------------------------------------------
\* Program constants
\* ------------------------------------------------------------------------
Csv == <<99, 115, 118>>                                   \* "csv"

PosiblesRegionCod == << <<114, 101, 103, 105, 111, 110, 99, 111, 100, 105, 103, 111>> >>
PosiblesRegionNom == << <<114, 101, 103, 105, 111, 110, 103, 108, 111, 115, 97>> >>
PosiblesComunaNom == << <<99, 111, 109, 117, 110, 97, 103, 108, 111, 115, 97>> >>
PosiblesEstabNom ==
  << <<101, 115, 116, 97, 98, 108, 101, 99, 105, 109, 105, 101, 110, 116, 111,
       103, 108, 111, 115, 97>> >>

Separador == <<32, 40>>                                   \* " ("

SliderMin == 5
SliderMax == 30
SliderDefault == 15
MaxMostrar == 20

COMUNA_CENTROS ==
    <<
       [key |-> <<115, 97, 110, 116, 105, 97, 103, 111>>, lat |-> -334489, lon |-> -706693],  \* "santiago"
       [key |-> <<112, 117, 101, 110, 116, 101, 32, 97, 108, 116, 111>>, lat |-> -336117, lon |-> -705758],  \* "puente alto"
       [key |-> <<109, 97, 105, 112, 250>>, lat |-> -335092, lon |-> -707570],  \* "maip\xfa"
       [key |-> <<108, 97, 32, 102, 108, 111, 114, 105, 100, 97>>, lat |-> -335531, lon |-> -705594],  \* "la florida"
       [key |-> <<108, 97, 115, 32, 99, 111, 110, 100, 101, 115>>, lat |-> -334080, lon |-> -705660],  \* "las condes"
       [key |-> <<112, 114, 111, 118, 105, 100, 101, 110, 99, 105, 97>>, lat |-> -334315, lon |-> -706094],  \* "providencia"
       [key |-> <<241, 117, 241, 111, 97>>, lat |-> -334569, lon |-> -705976],  \* "\xf1u\xf1oa"
       [key |-> <<115, 97, 110, 32, 98, 101, 114, 110, 97, 114, 100, 111>>, lat |-> -335923, lon |-> -707044],  \* "san bernardo"
       [key |-> <<112, 117, 100, 97, 104, 117, 101, 108>>, lat |-> -334308, lon |-> -707864],  \* "pudahuel"
       [key |-> <<97, 114, 105, 99, 97>>, lat |-> -184783, lon |-> -703126],  \* "arica"
       [key |-> <<105, 113, 117, 105, 113, 117, 101>>, lat |-> -202141, lon |-> -701525],  \* "iquique"
       [key |-> <<97, 108, 116, 111, 32, 104, 111, 115, 112, 105, 99, 105, 111>>, lat |-> -202688, lon |-> -701000],  \* "alto hospicio"
       [key |-> <<97, 110, 116, 111, 102, 97, 103, 97, 115, 116, 97>>, lat |-> -236509, lon |-> -703975],  \* "antofagasta"
       [key |-> <<99, 97, 108, 97, 109, 97>>, lat |-> -224560, lon |-> -689237],  \* "calama"
       [key |-> <<99, 111, 112, 105, 97, 112, 243>>, lat |-> -273665, lon |-> -703320],  \* "copiap\xf3"
       [key |-> <<108, 97, 32, 115, 101, 114, 101, 110, 97>>, lat |-> -299027, lon |-> -712519],  \* "la serena"
       [key |-> <<99, 111, 113, 117, 105, 109, 98, 111>>, lat |-> -299533, lon |-> -713436],  \* "coquimbo"
       [key |-> <<118, 97, 108, 112, 97, 114, 97, 237, 115, 111>>, lat |-> -330472, lon |-> -716127],  \* "valpara\xedso"
       [key |-> <<118, 105, 241, 97, 32, 100, 101, 108, 32, 109, 97, 114>>, lat |-> -330245, lon |-> -715518],  \* "vi\xf1a del mar"
       [key |-> <<113, 117, 105, 108, 112, 117, 233>>, lat |-> -330475, lon |-> -714436],  \* "quilpu\xe9"
       [key |-> <<114, 97, 110, 99, 97, 103, 117, 97>>, lat |-> -341701, lon |-> -707406],  \* "rancagua"
       [key |-> <<116, 97, 108, 99, 97>>, lat |-> -354264, lon |-> -716554],  \* "talca"
       [key |-> <<99, 104, 105, 108, 108, 225, 110>>, lat |-> -366063, lon |-> -721034],  \* "chill\xe1n"
       [key |-> <<99, 111, 110, 99, 101, 112, 99, 105, 243, 110>>, lat |-> -368270, lon |-> -730498],  \* "concepci\xf3n"
       [key |-> <<116, 97, 108, 99, 97, 104, 117, 97, 110, 111>>, lat |-> -367175, lon |-> -731169],  \* "talcahuano"
       [key |-> <<116, 101, 109, 117, 99, 111>>, lat |-> -387359, lon |-> -725904],  \* "temuco"
       [key |-> <<118, 97, 108, 100, 105, 118, 105, 97>>, lat |-> -398196, lon |-> -732452],  \* "valdivia"
       [key |-> <<111, 115, 111, 114, 110, 111>>, lat |-> -405748, lon |-> -731343],  \* "osorno"
       [key |-> <<112, 117, 101, 114, 116, 111, 32, 109, 111, 110, 116, 116>>, lat |-> -414717, lon |-> -729390],  \* "puerto montt"
       [key |-> <<99, 111, 121, 104, 97, 105, 113, 117, 101>>, lat |-> -455712, lon |-> -720683],  \* "coyhaique"
       [key |-> <<112, 117, 110, 116, 97, 32, 97, 114, 101, 110, 97, 115>>, lat |-> -531638, lon |-> -709171]  \* "punta arenas"
    >>

\* key in COMUNA_CENTROS
EnCentros(key) == \E i \in 1..Len(COMUNA_CENTROS) : COMUNA_CENTROS[i].key = key

\* COMUNA_CENTROS[key]
Centro(key) ==
  COMUNA_CENTROS[CHOOSE i \in 1..Len(COMUNA_CENTROS) : COMUNA_CENTROS[i].key = key]

\* ------------------------------------------------------------------------
\* Table operations (pandas), on a table [columns, rows]: a row is the
\* tuple of its cells in column order
\* ------------------------------------------------------------------------

\* position of the column called name
ColIdx(columns, name) ==
  CHOOSE i \in 1..Len(columns) :
    columns[i] = name /\ \A j \in 1..(i - 1) : columns[j] # name

\* d[name]: the column's values in row order
Valores(d, name) ==
  [r \in 1..Len(d.rows) |-> d.rows[r][ColIdx(d.columns, name)]]

\* d[name] = d[name].astype(str).apply(arreglar_tildes); the cells of the
\* glosa columns are strings already
RepararColumna(d, name) ==
  [d EXCEPT !.rows =
     [r \in 1..Len(d.rows) |->
        [d.rows[r] EXCEPT ![ColIdx(d.columns, name)] = arreglar_tildes(@)]]]

\* d[d[name] == valor]
Filtrar(d, name, valor) ==
  LET i == ColIdx(d.columns, name)
      Igual(r) == r[i] = valor
  IN [d EXCEPT !.rows = SelectSeq(d.rows, Igual)]

\* .drop_duplicates(): the first occurrence of each row is kept, in order
DropDuplicates(s) ==
  LET primeros == {i \in 1..Len(s) : \A j \in 1..(i - 1) : s[j] # s[i]}
  IN [k \in 1..Cardinality(primeros) |->
        s[CHOOSE i \in primeros : Cardinality({j \in primeros : j <= i}) = k]]

Remove(s, i) == SubSeq(s, 1, i - 1) \o SubSeq(s, i + 1, Len(s))

\* Mutation of SortValuesCod: the pairs are left in the order met
SortValuesCodSinOrdenar(pares) == {pares}

\* .sort_values(col_region_cod) of <<code, name>> pairs.  The default kind
\* (quicksort) is not stable: every order that is ascending by code is a
\* possible result.
RECURSIVE SortValuesCod(_)
SortValuesCod(pares) ==
  IF pares = <<>> THEN {<<>>}
  ELSE UNION {{<<pares[i]>> \o t : t \in SortValuesCod(Remove(pares, i))} :
              i \in {i \in 1..Len(pares) :
                       \A j \in 1..Len(pares) : pares[i][1] <= pares[j][1]}}

\* Mutation of SortValuesDesc: ascending instead of descending
RECURSIVE SortValuesAscN(_)
SortValuesAscN(conteo) ==
  IF conteo = <<>> THEN {<<>>}
  ELSE UNION {{<<conteo[i]>> \o t : t \in SortValuesAscN(Remove(conteo, i))} :
              i \in {i \in 1..Len(conteo) :
                       \A j \in 1..Len(conteo) : conteo[i].n <= conteo[j].n}}

\* .sort_values(ascending=False) of a count series, again not stable: every
\* order that is descending by count is a possible result.
RECURSIVE SortValuesDesc(_)
SortValuesDesc(conteo) ==
  IF conteo = <<>> THEN {<<>>}
  ELSE UNION {{<<conteo[i]>> \o t : t \in SortValuesDesc(Remove(conteo, i))} :
              i \in {i \in 1..Len(conteo) :
                       \A j \in 1..Len(conteo) : conteo[i].n >= conteo[j].n}}

\* the group keys in the order groupby leaves them (sort=True): ascending
RECURSIVE OrdenarClaves(_)
OrdenarClaves(S) ==
  IF S = {} THEN <<>>
  ELSE LET m == CHOOSE k \in S : \A o \in S \ {k} : StrLess(k, o)
       IN <<m>> \o OrdenarClaves(S \ {m})

\* .groupby(c).size() over the values of column c: one entry per distinct
\* value, keys ascending, each with the number of rows holding it
GroupSize(valores) ==
  LET ks == OrdenarClaves(Range(valores))
  IN [i \in 1..Len(ks) |->
        [key |-> ks[i],
         n |-> Cardinality({r \in 1..Len(valores) : valores[r] = ks[i]})]]

\* conteo.get(k, 0) / the value reindex and fillna(0) leave for label k
Conteo(conteo, k) ==
  IF \E i \in 1..Len(conteo) : conteo[i].key = k
  THEN conteo[CHOOSE i \in 1..Len(conteo) : conteo[i].key = k].n
  ELSE 0

\* Mutation of Reindex: the series keeps its own (alphabetical) index
ReindexSinReindexar(conteo, indice) == conteo

\* .reindex(indice).fillna(0): one entry per label of indice, in its order
Reindex(conteo, indice) ==
  [i \in 1..Len(indice) |-> [key |-> indice[i], n |-> Conteo(conteo, indice[i])]]

\* Mutation of RSplit0: split at the first separator (str.split)
Split0(s, sep) ==
  LET donde == {i \in 1..Len(s) : OccursAt(sep, s, i)}
  IN IF donde = {} THEN s
     ELSE SubSeq(s, 1, (CHOOSE i \in donde : \A j \in donde : i <= j) - 1)

\* s.rsplit(sep, 1)[0]: the text before the last occurrence of sep
RSplit0(s, sep) ==
  LET donde == {i \in 1..Len(s) : OccursAt(sep, s, i)}
  IN IF donde = {} THEN s
     ELSE SubSeq(s, 1, (CHOOSE i \in donde : \A j \in donde : i >= j) - 1)

\* f"{r} ({n})"
Etiqueta(r, n) == r \o Separador \o Digits(n) \o <<41>>

\* ------------------------------------------------------------------------
\* Inputs: catalog answers, CSV payloads, slider values
\* ------------------------------------------------------------------------
U1 == <<117, 49>>                                         \* "u1"
U2 == <<117, 50>>                                         \* "u2"

\* "csv", "CSV", "json", and a resource without a format
Formatos == {Csv, <<67, 83, 86>>, <<106, 115, 111, 110>>, None}

\* a URL, an empty URL, and a resource without a URL
Urls == {U1, U2, <<>>, None}

MaxResources == 2

Recursos == [format : Formatos, url : Urls]

Datasets == [resources : SeqsUpTo(Recursos, MaxResources)]

\* every answer with a success flag, a result count and a results list
RespPool == [success : BOOLEAN, count : 0..1, results : SeqsUpTo(Datasets, 1)]

DatasetOk ==
  [resources |-> << [format |-> <<106, 115, 111, 110>>, url |-> U2],
                    [format |-> <<67, 83, 86>>, url |-> U1] >>]

RespOk == [success |-> TRUE, count |-> 1, results |-> <<DatasetOk>>]

\* one answer for each way the locator ends without a URL
RespMalas ==
  { [success |-> FALSE, count |-> 1, results |-> <<DatasetOk>>],
    [success |-> TRUE, count |-> 0, results |-> <<>>],
    [success |-> TRUE, count |-> 1, results |-> <<>>],
    [success |-> TRUE, count |-> 1, results |-> <<[resources |-> <<>>]>>] }

\* " RegionCodigo", "RegionGlosa ", "ComunaGlosa", "EstablecimientoGlosa"
HeaderOk ==
  << <<32, 82, 101, 103, 105, 111, 110, 67, 111, 100, 105, 103, 111>>,
     <<82, 101, 103, 105, 111, 110, 71, 108, 111, 115, 97, 32>>,
     <<67, 111, 109, 117, 110, 97, 71, 108, 111, 115, 97>>,
     <<69, 115, 116, 97, 98, 108, 101, 99, 105, 109, 105, 101, 110, 116, 111,
       71, 108, 111, 115, 97>> >>

\* "codigo", "region", "comuna", "establecimiento": names no role matches
HeaderCorto ==
  << <<99, 111, 100, 105, 103, 111>>,
     <<114, 101, 103, 105, 111, 110>>,
     <<99, 111, 109, 117, 110, 97>>,
     <<101, 115, 116, 97, 98, 108, 101, 99, 105, 109, 105, 101, 110, 116, 111>> >>

\* the header with the columns of S renamed so that their role is not found
HeaderSin(S) == [i \in 1..4 |-> IF i \in S THEN HeaderCorto[i] ELSE HeaderOk[i]]

NomA == <<209>>                          \* N with tilde
NomB == <<195, 145, 32, 40, 49>>         \* N with tilde, " (1": UTF-8 read as Latin-1
ComA == <<77, 97, 105, 112, 195, 186, 32>>  \* "Maipu " with its accent: UTF-8 read as Latin-1
ComB == <<65, 114, 105, 99>>             \* "Aric"
EstH == <<72>>                           \* "H"
EstP == <<80>>                           \* "P"

\* a row: region code, region name, commune name, facility name
RowPool == {<<c, n, me[1], me[2]>> : c \in {1, 2}, n \in {NomA, NomB},
                                     me \in {<<ComA, EstH>>, <<ComB, EstP>>,
                                              <<ComB, EstH>>}}

T0 == << <<1, NomA, ComA, EstH>>, <<2, NomB, ComB, EstP>> >>

\* the same table with its name columns in another order
HeaderOtro == <<HeaderOk[1], HeaderOk[4], HeaderOk[3], HeaderOk[2]>>
T0Otro == [r \in 1..Len(T0) |-> <<T0[r][1], T0[r][4], T0[r][3], T0[r][2]>>]

PayloadT0 == [header |-> HeaderOk, rows |-> T0]

PayloadsMain ==
  {[header |-> HeaderOk, rows |-> t] : t \in SeqsUpTo(RowPool, MaxRows)}
  \cup {[header |-> HeaderSin(S), rows |-> T0] : S \in (SUBSET (1..4)) \ {{}}}
  \cup {[header |-> HeaderOtro, rows |-> T0Otro]}

\* the name of the i-th of the n communes of a large region: " Arica" for
\* the last one when k >= 1, "Maipu " (UTF-8 read as Latin-1) for the first
\* one when k >= 2, "x" and the digits of i for the others
ComunaGrande(i, n, k) ==
  IF k >= 1 /\ i = n THEN <<32, 65, 114, 105, 99, 97>>
  ELSE IF k >= 2 /\ i = 1 THEN ComA
  ELSE <<120>> \o Digits(i)

RECURSIVE Repetir(_, _)
Repetir(r, veces) == IF veces = 0 THEN <<>> ELSE <<r>> \o Repetir(r, veces - 1)

\* one region of n communes, the i-th with i facilities: no two communes
\* have the same count
RECURSIVE FilasGrandes(_, _, _)
FilasGrandes(i, n, k) ==
  IF i = 0 THEN <<>>
  ELSE FilasGrandes(i - 1, n, k)
         \o Repetir(<<1, NomA, ComunaGrande(i, n, k), EstH>>, i)

TablaGrande(n, k) == FilasGrandes(n, n, k)

PayloadsMapa ==
  {[header |-> HeaderOk, rows |-> TablaGrande(n, k)] :
     n \in 0..MaxComunas, k \in 0..2}

\* ------------------------------------------------------------------------
\* Initial states
\* ------------------------------------------------------------------------
NoDataset == [resources |-> <<>>]
NoTabla == [columns |-> <<>>, rows |-> <<>>]
NoCol == [region_cod |-> None, region_nom |-> None,
          comuna_nom |-> None, estab_nom |-> None]
NoInfo == [visible |-> FALSE, nombres |-> <<>>, truncado |-> FALSE]
NoCall == [op |-> "", columns |-> <<>>, posibles |-> <<>>, texto |-> <<>>,
           verdad |-> <<>>, ret |-> None, hecho |-> FALSE]

Arranque ==
  /\ pc = "inicio"
  /\ out = <<>>
  /\ fault = "none"
  /\ dataset = NoDataset
  /\ csv_url = None
  /\ cargas = <<>>
  /\ df = NoTabla
  /\ col = NoCol
  /\ regiones_ordenadas = <<>>
  /\ regiones_sidebar = <<>>
  /\ region_label = None
  /\ region_sel = None
  /\ top_n_comunas = 0
  /\ df_region = NoTabla
  /\ metricas = <<>>
  /\ conteo_nacional = <<>>
  /\ conteo_tipo = <<>>
  /\ conteo_comuna = <<>>
  /\ mapa_rows = <<>>
  /\ sin_coord = <<>>
  /\ info = NoInfo

\* small tables of every shape, the slider at its default
Init ==
  /\ Arranque
  /\ \/ resp = RespOk /\ payload \in PayloadsMain
     \/ resp \in RespMalas /\ payload = PayloadT0
  /\ slider = SliderDefault
  /\ fn = NoCall

\* every catalog answer, one table
InitLocator ==
  /\ Arranque
  /\ resp \in RespPool
  /\ payload = PayloadT0
  /\ slider = SliderDefault
  /\ fn = NoCall

\* large regions, every slider value
InitMapa ==
  /\ Arranque
  /\ resp = RespOk
  /\ payload \in PayloadsMapa
  /\ slider \in SliderMin..SliderMax
  /\ fn = NoCall

\* ------------------------------------------------------------------------
\* The run, section by section
\* ------------------------------------------------------------------------

\* st.stop() after st.error(mensaje)
Detener(mensaje) ==
  /\ out' = Append(out, mensaje)
  /\ pc' = "stop"
  /\ fault' = fault

\* an exception nothing catches
Fallar(excepcion) ==
  /\ pc' = "fault"
  /\ fault' = excepcion

\* lines 9-18: the page header
Configuracion ==
  /\ pc = "inicio"
  /\ out' = <<"title", "write", "divider">>
  /\ pc' = "buscar"
  /\ UNCHANGED <<fault, dataset, csv_url, cargas, post, inputs>>

\* lines 23-30: the catalog search and its first result
BuscarDataset ==
  /\ pc = "buscar"
  /\ IF ~resp.success \/ resp.count = 0
     THEN Detener("error_dataset") /\ dataset' = dataset
     ELSE IF resp.results = <<>>
     THEN Fallar("IndexError") /\ out' = out /\ dataset' = dataset
     ELSE /\ dataset' = resp.results[1]
          /\ pc' = "csv"
          /\ UNCHANGED <<out, fault>>
  /\ UNCHANGED <<csv_url, cargas, post, inputs>>

\* lines 35-39: the URL of the first resource whose format is csv
RECURSIVE PrimerCsv(_)
PrimerCsv(resources) ==
  IF resources = <<>> THEN None
  ELSE IF Lower(Str(Head(resources).format)) = Csv THEN Head(resources).url
  ELSE PrimerCsv(Tail(resources))

\* lines 35-43: the CSV resource
ObtenerCSV ==
  /\ pc = "csv"
  /\ csv_url' = PrimerCsv(dataset.resources)
  /\ IF ~Truthy(csv_url')
     THEN Detener("error_csv")
     ELSE pc' = "cargar" /\ UNCHANGED <<out, fault>>
  /\ UNCHANGED <<dataset, cargas, post, inputs>>

\* line 55: the header names trimmed and lower-cased
NormalizarColumnas(header) == [i \in 1..Len(header) |-> Lower(Strip(header[i]))]

\* lines 48-55: the load
CargarCSV ==
  /\ pc = "cargar"
  /\ cargas' = Append(cargas, csv_url)
  /\ df' = [columns |-> NormalizarColumnas(payload.header), rows |-> payload.rows]
  /\ pc' = "detectar"
  /\ UNCHANGED <<out, fault, dataset, csv_url, col, regiones_ordenadas,
                 regiones_sidebar, region_label, region_sel, top_n_comunas,
                 df_region, tras_sidebar, inputs>>

\* Mutation of Todas: the commune column is not checked
TodasMenosComuna(c) ==
  Truthy(c.region_cod) /\ Truthy(c.region_nom) /\ Truthy(c.estab_nom)

\* line 84: all([col_region_cod, col_region_nom, col_comuna_nom, col_estab_nom])
Todas(c) ==
  /\ Truthy(c.region_cod)
  /\ Truthy(c.region_nom)
  /\ Truthy(c.comuna_nom)
  /\ Truthy(c.estab_nom)

\* lines 79-86: the four mandatory columns and their gate
DetectarColumnas ==
  /\ pc = "detectar"
  /\ col' = [region_cod |-> buscar_columna(df.columns, PosiblesRegionCod),
             region_nom |-> buscar_columna(df.columns, PosiblesRegionNom),
             comuna_nom |-> buscar_columna(df.columns, PosiblesComunaNom),
             estab_nom |-> buscar_columna(df.columns, PosiblesEstabNom)]
  /\ IF ~Todas(col')
     THEN Detener("error_columnas")
     ELSE pc' = "tildes" /\ UNCHANGED <<out, fault>>
  /\ UNCHANGED <<dataset, csv_url, cargas, df, regiones_ordenadas,
                 regiones_sidebar, region_label, region_sel, top_n_comunas,
                 df_region, tras_sidebar, inputs>>

\* lines 89-90: text repair of the three glosa columns, one after another
ArreglarGlosas ==
  /\ pc = "tildes"
  /\ df' = RepararColumna(
             RepararColumna(RepararColumna(df, col.region_nom), col.comuna_nom),
             col.estab_nom)
  /\ pc' = "orden"
  /\ UNCHANGED <<out, fault, dataset, csv_url, cargas, col, regiones_ordenadas,
                 regiones_sidebar, region_label, region_sel, top_n_comunas,
                 df_region, tras_sidebar, inputs>>

\* df[[col_region_cod, col_region_nom]]: the <<code, name>> pair of each row
ParesRegion(d, c) ==
  [r \in 1..Len(d.rows) |->
     <<Valores(d, c.region_cod)[r], Valores(d, c.region_nom)[r]>>]

\* [col_region_nom].tolist()
Nombres(pares) == [i \in 1..Len(pares) |-> pares[i][2]]

\* lines 95-100: every list the expression can yield for table d
OrdenesRegiones(d, c) ==
  {Nombres(o) : o \in SortValuesCod(DropDuplicates(ParesRegion(d, c)))}

\* lines 95-100: the region ordering
OrdenRegiones ==
  /\ pc = "orden"
  /\ regiones_ordenadas' \in OrdenesRegiones(df, col)
  /\ pc' = "sidebar"
  /\ UNCHANGED <<out, fault, dataset, csv_url, cargas, df, col,
                 regiones_sidebar, region_label, region_sel, top_n_comunas,
                 df_region, tras_sidebar, inputs>>

\* lines 105-106: the selector's options
OpcionesSidebar(d, c, orden) ==
  LET conteo_region_dict == GroupSize(Valores(d, c.region_nom))
  IN [i \in 1..Len(orden) |-> Etiqueta(orden[i], Conteo(conteo_region_dict, orden[i]))]

\* lines 105-121: the sidebar and the region filter.  With no option the
\* selectbox returns None and line 112 raises.
Sidebar ==
  /\ pc = "sidebar"
  /\ regiones_sidebar' = OpcionesSidebar(df, col, regiones_ordenadas)
  /\ IF regiones_sidebar' = <<>>
     THEN /\ Fallar("AttributeError")
          /\ out' = out \o <<"sidebar.title", "sidebar.caption", "sidebar.selectbox">>
          /\ UNCHANGED <<region_label, region_sel, top_n_comunas, df_region>>
     ELSE /\ \E i \in 1..Len(regiones_sidebar') :
               region_label' = regiones_sidebar'[i]
          /\ region_sel' = RSplit0(region_label', Separador)
          /\ top_n_comunas' = slider
          /\ df_region' = Filtrar(df, col.region_nom, region_sel')
          /\ out' = out \o <<"sidebar.title", "sidebar.caption", "sidebar.selectbox",
                             "sidebar.slider", "sidebar.markdown">>
          /\ pc' = "metricas"
          /\ fault' = fault
  /\ UNCHANGED <<dataset, csv_url, cargas, df, col, regiones_ordenadas,
                 tras_sidebar, inputs>>

\* lines 126-130: the two indicators
Metricas ==
  /\ pc = "metricas"
  /\ metricas' = <<Len(df_region.rows),
                   Cardinality(Range(Valores(df_region, col.estab_nom)))>>
  /\ out' = out \o <<"header", "metric", "metric", "divider">>
  /\ pc' = "nacional"
  /\ UNCHANGED <<fault, dataset, csv_url, cargas, df, col, regiones_ordenadas,
                 regiones_sidebar, region_label, region_sel, top_n_comunas,
                 df_region, conteo_nacional, conteo_tipo, conteo_comuna,
                 mapa_rows, sin_coord, info, inputs>>

\* lines 135-170: the national chart
AnalisisNacional ==
  /\ pc = "nacional"
  /\ conteo_nacional' =
       Reindex(GroupSize(Valores(df, col.region_nom)), regiones_ordenadas)
  /\ out' = out \o <<"header", "altair_chart", "divider">>
  /\ pc' = "regional"
  /\ UNCHANGED <<fault, dataset, csv_url, cargas, df, col, regiones_ordenadas,
                 regiones_sidebar, region_label, region_sel, top_n_comunas,
                 df_region, metricas, conteo_tipo, conteo_comuna,
                 mapa_rows, sin_coord, info, inputs>>

\* lines 175-197: the chart of facility types in the region
AnalisisRegional ==
  /\ pc = "regional"
  /\ conteo_tipo' \in SortValuesDesc(GroupSize(Valores(df_region, col.estab_nom)))
  /\ out' = out \o <<"header", "altair_chart", "divider">>
  /\ pc' = "mapa"
  /\ UNCHANGED <<fault, dataset, csv_url, cargas, df, col, regiones_ordenadas,
                 regiones_sidebar, region_label, region_sel, top_n_comunas,
                 df_region, metricas, conteo_nacional, conteo_comuna,
                 mapa_rows, sin_coord, info, inputs>>

\* lines 264-277: the rows the loop appends to mapa_rows
RECURSIVE Mapeadas(_)
Mapeadas(conteo) ==
  IF conteo = <<>> THEN <<>>
  ELSE IF EnCentros(norm_key(Head(conteo).key))
  THEN <<[lat |-> Centro(norm_key(Head(conteo).key)).lat,
          lon |-> Centro(norm_key(Head(conteo).key)).lon,
          comuna |-> Head(conteo).key,
          cantidad |-> Head(conteo).n]>> \o Mapeadas(Tail(conteo))
  ELSE Mapeadas(Tail(conteo))

\* lines 265-279: the names the loop appends to sin_coord
RECURSIVE SinCoordenadas(_)
SinCoordenadas(conteo) ==
  IF conteo = <<>> THEN <<>>
  ELSE IF EnCentros(norm_key(Head(conteo).key)) THEN SinCoordenadas(Tail(conteo))
  ELSE <<Head(conteo).key>> \o SinCoordenadas(Tail(conteo))

\* Mutation of Diagnostico: the indicator appears from 20 names on
DiagnosticoDesde20(sc) ==
  [visible |-> sc # <<>>,
   nombres |-> IF sc # <<>> THEN Head_n(sc, MaxMostrar) ELSE <<>>,
   truncado |-> sc # <<>> /\ Len(sc) >= MaxMostrar]

\* lines 295-300: the panel st.info shows, if any
Diagnostico(sc) ==
  [visible |-> sc # <<>>,
   nombres |-> IF sc # <<>> THEN Head_n(sc, MaxMostrar) ELSE <<>>,
   truncado |-> sc # <<>> /\ Len(sc) > MaxMostrar]

\* lines 202-302: the map of the top communes and its diagnostics
MapaComunas ==
  /\ pc = "mapa"
  /\ \E orden \in SortValuesDesc(GroupSize(Valores(df_region, col.comuna_nom))) :
       conteo_comuna' = Head_n(orden, top_n_comunas)
  /\ mapa_rows' = Mapeadas(conteo_comuna')
  /\ sin_coord' = SinCoordenadas(conteo_comuna')
  /\ info' = Diagnostico(sin_coord')
  /\ out' = out \o <<"header", "markdown">>
              \o (IF mapa_rows' # <<>> THEN <<"map", "caption", "dataframe">>
                                       ELSE <<"warning">>)
              \o (IF info'.visible THEN <<"info">> ELSE <<>>)
              \o <<"divider">>
  /\ pc' = "detalle"
  /\ UNCHANGED <<fault, dataset, csv_url, cargas, df, col, regiones_ordenadas,
                 regiones_sidebar, region_label, region_sel, top_n_comunas,
                 df_region, metricas, conteo_nacional, conteo_tipo, inputs>>

\* lines 307-311: the detail table
TablaDetalle ==
  /\ pc = "detalle"
  /\ out' = out \o <<"header", "dataframe">>
  /\ pc' = "conclusion"
  /\ UNCHANGED <<fault, dataset, csv_url, cargas, post, inputs>>

\* lines 316-323: the conclusion
Conclusion ==
  /\ pc = "conclusion"
  /\ out' = out \o <<"header", "markdown">>
  /\ pc' = "fin"
  /\ UNCHANGED <<fault, dataset, csv_url, cargas, post, inputs>>

Localizar == Configuracion \/ BuscarDataset \/ ObtenerCSV \/ CargarCSV

Next ==
  \/ Configuracion
  \/ BuscarDataset
  \/ ObtenerCSV
  \/ CargarCSV
  \/ DetectarColumnas
  \/ ArreglarGlosas
  \/ OrdenRegiones
  \/ Sidebar
  \/ Metricas
  \/ AnalisisNacional
  \/ AnalisisRegional
  \/ MapaComunas
  \/ TablaDetalle
  \/ Conclusion

Spec == Init /\ [][Next]_vars

SpecLocator == InitLocator /\ [][Localizar]_vars

SpecMapa == InitMapa /\ [][Next]_vars

\* ------------------------------------------------------------------------
\* Direct calls of the helpers, on strings over small alphabets
\* ------------------------------------------------------------------------

\* column names: the strings of at most three letters over {a, b}
NombresCol == SeqsUpTo({97, 98}, 3)

\* candidates: "", "a", "b", "ab", "ba"
Candidatos == {<<>>, <<97>>, <<98>>, <<97, 98>>, <<98, 97>>}

\* "A", A with tilde, the copyright sign, e with acute accent, the euro sign
Alfabeto == {65, 195, 169, 233, 8364}

\* the UTF-8 bytes of one code point
Utf8Char(c) ==
  IF c < 128 THEN <<c>>
  ELSE IF c < 2048 THEN <<192 + (c \div 64), 128 + (c % 64)>>
  ELSE IF c < 65536
  THEN <<224 + (c \div 4096), 128 + ((c \div 64) % 64), 128 + (c % 64)>>
  ELSE <<240 + (c \div 262144), 128 + ((c \div 4096) % 64),
         128 + ((c \div 64) % 64), 128 + (c % 64)>>

\* a text written to the file as UTF-8 and read by the loader as Latin-1
\* (encoding="latin-1": one code point per byte)
RECURSIVE Utf8LeidoLatin1(_)
Utf8LeidoLatin1(s) ==
  IF s = <<>> THEN <<>> ELSE Utf8Char(Head(s)) \o Utf8LeidoLatin1(Tail(s))

Llamada(op, columns, posibles, texto, verdad) ==
  [op |-> op, columns |-> columns, posibles |-> posibles, texto |-> texto,
   verdad |-> verdad, ret |-> None, hecho |-> FALSE]

Reposo == Arranque /\ resp = RespOk /\ payload = PayloadT0 /\ slider = SliderDefault

\* buscar_columna on every list of columns and every list of candidates
InitCol ==
  /\ Reposo
  /\ \E cs \in SeqsUpTo(NombresCol, MaxCols), ps \in SeqsUpTo(Candidatos, MaxPosibles) :
       fn = Llamada("buscar_columna", cs, ps, <<>>, <<>>)

\* arreglar_tildes on a text as it is meant (verdad) and on the same text
\* written as UTF-8 and read as Latin-1
InitTildes ==
  /\ Reposo
  /\ \E v \in SeqsUpTo(Alfabeto, MaxTexto) :
       \E t \in {v, Utf8LeidoLatin1(v)} :
         fn = Llamada("arreglar_tildes", <<>>, <<>>, t, v)

LlamarBuscarColumna ==
  /\ fn.op = "buscar_columna"
  /\ ~fn.hecho
  /\ fn' = [fn EXCEPT !.ret = buscar_columna(fn.columns, fn.posibles),
                      !.hecho = TRUE]
  /\ UNCHANGED <<pc, out, fault, dataset, csv_url, cargas, post, resp, payload, slider>>

LlamarArreglarTildes ==
  /\ fn.op = "arreglar_tildes"
  /\ ~fn.hecho
  /\ fn' = [fn EXCEPT !.ret = arreglar_tildes(fn.texto), !.hecho = TRUE]
  /\ UNCHANGED <<pc, out, fault, dataset, csv_url, cargas, post, resp, payload, slider>>

SpecCol == InitCol /\ [][LlamarBuscarColumna]_vars

SpecTildes == InitTildes /\ [][LlamarArreglarTildes]_vars

\* ------------------------------------------------------------------------
\* Properties
\* ------------------------------------------------------------------------

\* the sections after the region ordering
TrasOrden == {"sidebar", "metricas", "nacional", "regional", "mapa", "detalle",
              "conclusion", "fin"}
TrasSidebar == TrasOrden \ {"sidebar"}
TrasNacional == {"regional", "mapa", "detalle", "conclusion", "fin"}
TrasRegional == {"mapa", "detalle", "conclusion", "fin"}
TrasMapa == {"detalle", "conclusion", "fin"}

\* the column detection of lines 79-82 has run
Detectado == cargas # <<>> /\ pc # "detectar"

RolNoEncontrado ==
  /\ Detectado
  /\ \/ col.region_cod = None
     \/ col.region_nom = None
     \/ col.comuna_nom = None
     \/ col.estab_nom = None

\* no section after the gate has run: the table is as loaded and nothing
\* later is computed
NadaPosterior ==
  /\ df.rows = payload.rows
  /\ regiones_ordenadas = <<>>
  /\ regiones_sidebar = <<>>
  /\ region_label = None
  /\ region_sel = None
  /\ top_n_comunas = 0
  /\ df_region = NoTabla
  /\ metricas = <<>>
  /\ conteo_nacional = <<>>
  /\ conteo_tipo = <<>>
  /\ conteo_comuna = <<>>
  /\ mapa_rows = <<>>
  /\ sin_coord = <<>>
  /\ info = NoInfo

\* C1, as stated: when a mandatory column role is not found the run halts
\* with the error, no output element was emitted before it, and no later
\* stage runs.
C1_NoOutputBeforeHalt ==
  RolNoEncontrado =>
    /\ pc = "stop"
    /\ out = <<"error_columnas">>
    /\ NadaPosterior

\* C1, amended: when a mandatory column role is not found the run halts with
\* the error; the only elements emitted are the page header (title, text,
\* divider) and the error, and no later stage runs.
C1_GateHalts ==
  RolNoEncontrado =>
    /\ pc = "stop"
    /\ fault = "none"
    /\ out = <<"title", "write", "divider", "error_columnas">>
    /\ NadaPosterior

C1_Witness ==
  /\ RolNoEncontrado
  /\ pc = "stop"
  /\ col.comuna_nom = None
  /\ col.region_cod # None
  /\ col.region_nom # None
  /\ col.estab_nom # None

\* the locator (lines 23-43) and the load it leads to are over
LocalizadorTermino == pc \notin {"inicio", "buscar", "csv", "cargar"}

\* the positions of the CSV resources of a dataset, format compared
\* case-insensitively
RecursosCsv(d) ==
  {i \in 1..Len(d.resources) : Lower(Str(d.resources[i].format)) = Csv}

\* C2: for every answer with a success flag, a count and a results list: an
\* unsuccessful or empty search, or a first dataset without CSV resource,
\* halts with a message and never loads; otherwise the loader is called
\* exactly once, with the URL of the first CSV resource; and no answer ends
\* in an unhandled exception.
C2_Locator ==
  LocalizadorTermino =>
    /\ fault = "none"
    /\ IF \/ ~resp.success
          \/ resp.count = 0
          \/ resp.results = <<>>
          \/ RecursosCsv(resp.results[1]) = {}
       THEN /\ pc = "stop"
            /\ out # <<>>
            /\ out[Len(out)] \in {"error_dataset", "error_csv"}
            /\ cargas = <<>>
       ELSE LET d == resp.results[1]
                primero == CHOOSE i \in RecursosCsv(d) :
                             \A j \in RecursosCsv(d) : i <= j
            IN cargas = <<d.resources[primero].url>>

\* the region ordering has just been computed (no later section assigns
\* regiones_ordenadas or df)
Ordenado == pc = "sidebar"

NombresRegion == Range(Valores(df, col.region_nom))

\* no region name comes with two region codes
UnCodigoPorNombre ==
  \A p, q \in Range(ParesRegion(df, col)) : p[2] = q[2] => p[1] = q[1]

\* no region code comes with two region names
UnNombrePorCodigo ==
  \A p, q \in Range(ParesRegion(df, col)) : p[1] = q[1] => p[2] = q[2]

Veces(s, x) == Cardinality({i \in 1..Len(s) : s[i] = x})

CadaNombreUnaVez ==
  /\ Range(regiones_ordenadas) = NombresRegion
  /\ \A r \in NombresRegion : Veces(regiones_ordenadas, r) = 1

\* the entries carry region codes of the table that do not decrease
NoDecrecientePorCodigo ==
  \E cods \in [1..Len(regiones_ordenadas) -> Range(Valores(df, col.region_cod))] :
    /\ \A i \in 1..Len(regiones_ordenadas) :
         <<cods[i], regiones_ordenadas[i]>> \in Range(ParesRegion(df, col))
    /\ \A i \in 1..(Len(regiones_ordenadas) - 1) : cods[i] <= cods[i + 1]

\* every permutation of the rows yields this ordering and no other
IgualBajoPermutacion ==
  \A p \in Perms(Len(df.rows)) :
    OrdenesRegiones([df EXCEPT !.rows = [i \in 1..Len(df.rows) |-> df.rows[p[i]]]],
                    col) = {regiones_ordenadas}

\* C3, as stated: for every loaded table the region ordering holds each
\* distinct region name exactly once, is non-decreasing by region code, and
\* is the same for every permutation of the rows.
C3_AnyTable ==
  Ordenado => CadaNombreUnaVez /\ NoDecrecientePorCodigo /\ IgualBajoPermutacion

\* C3, amended: the region ordering holds every region name of the table
\* and is non-decreasing by region code; it holds each name exactly once
\* when no name comes with two codes, and is the same for every permutation
\* of the rows when no code comes with two names.
C3_RegionOrdering ==
  Ordenado =>
    /\ Range(regiones_ordenadas) = NombresRegion
    /\ NoDecrecientePorCodigo
    /\ UnCodigoPorNombre => CadaNombreUnaVez
    /\ UnNombrePorCodigo => IgualBajoPermutacion

C3_Witness ==
  /\ Ordenado
  /\ UnCodigoPorNombre
  /\ UnNombrePorCodigo
  /\ Len(regiones_ordenadas) = 2
  /\ Len(df.rows) = 3
  /\ Valores(df, col.region_cod)[1] > Valores(df, col.region_cod)[2]

FilasDe(d, name, valor) == {r \in 1..Len(d.rows) : Valores(d, name)[r] = valor}

UnaEntradaPorRegion ==
  /\ Len(conteo_nacional) = Len(regiones_ordenadas)
  /\ \A i \in 1..Len(conteo_nacional) :
       /\ conteo_nacional[i].key = regiones_ordenadas[i]
       /\ conteo_nacional[i].n =
            Cardinality(FilasDe(df, col.region_nom, regiones_ordenadas[i]))

SumaNacional == SumSeq([i \in 1..Len(conteo_nacional) |-> conteo_nacional[i].n])

\* C4, as stated: conteo_nacional has one entry per region of the ordering,
\* in that order, each the number of records of that region name, and its
\* counts sum to the number of records.
C4_SumsToTotal ==
  pc \in TrasNacional => UnaEntradaPorRegion /\ SumaNacional = Len(df.rows)

\* C4, amended: conteo_nacional has one entry per entry of the ordering, in
\* that order, each the number of records of that region name; its counts
\* sum to the number of records when no region name comes with two codes.
C4_Reindexed ==
  pc \in TrasNacional =>
    /\ UnaEntradaPorRegion
    /\ UnCodigoPorNombre => SumaNacional = Len(df.rows)

C4_Witness ==
  /\ pc \in TrasNacional
  /\ UnCodigoPorNombre
  /\ Len(conteo_nacional) = 2
  /\ conteo_nacional[1].n = 2
  /\ conteo_nacional[2].n = 1
  /\ StrLess(conteo_nacional[2].key, conteo_nacional[1].key)

\* the positions of the columns that contain at least one candidate
ColumnasQueContienen(columns, posibles) ==
  {i \in 1..Len(columns) : \E k \in 1..Len(posibles) : Contains(posibles[k], columns[i])}

\* C5: buscar_columna returns the first column, in the table's column order,
\* that contains at least one candidate as a substring, returns None exactly
\* when no column contains any candidate, and leaves the table as it was.
C5_BuscarColumna ==
  (fn.op = "buscar_columna" /\ fn.hecho) =>
    LET hits == ColumnasQueContienen(fn.columns, fn.posibles)
    IN /\ (fn.ret = None) <=> (hits = {})
       /\ hits # {} =>
            fn.ret = fn.columns[CHOOSE i \in hits : \A j \in hits : i <= j]
       /\ df = NoTabla

C5_Witness ==
  /\ fn.op = "buscar_columna"
  /\ fn.hecho
  /\ Len(fn.columns) = 2
  /\ Len(fn.posibles) = 2
  /\ fn.ret = fn.columns[2]
  /\ fn.ret # fn.columns[1]
  /\ Len(fn.posibles[2]) = 2
  /\ ~Contains(fn.posibles[1], fn.ret)
  /\ ~OccursAt(fn.posibles[2], fn.ret, 1)

\* the position of the first row of d whose column name holds valor
PrimeraVez(d, name, valor) ==
  CHOOSE r \in FilasDe(d, name, valor) : \A q \in FilasDe(d, name, valor) : r <= q

NoCreciente(conteo) ==
  \A i \in 1..(Len(conteo) - 1) : conteo[i].n >= conteo[i + 1].n

\* keys with equal counts come in the order they were first met in d
EmpatesPorAparicion(conteo, d, name) ==
  \A i, j \in 1..Len(conteo) :
    (i < j /\ conteo[i].n = conteo[j].n) =>
      PrimeraVez(d, name, conteo[i].key) < PrimeraVez(d, name, conteo[j].key)

\* each entry is a distinct value of the column with its number of rows
ConteosExactos(conteo, d, name) ==
  /\ \A i, j \in 1..Len(conteo) : i # j => conteo[i].key # conteo[j].key
  /\ \A i \in 1..Len(conteo) :
       /\ conteo[i].n >= 1
       /\ conteo[i].n = Cardinality(FilasDe(d, name, conteo[i].key))

Claves(conteo) == {conteo[i].key : i \in 1..Len(conteo)}

DistintasComunas == Range(Valores(df_region, col.comuna_nom))

\* conteo_comuna holds the top_n_comunas communes of the region by count
SonLasTopN ==
  /\ Len(conteo_comuna) = Min(top_n_comunas, Cardinality(DistintasComunas))
  /\ ConteosExactos(conteo_comuna, df_region, col.comuna_nom)
  /\ \A c \in DistintasComunas \ Claves(conteo_comuna) :
       \A i \in 1..Len(conteo_comuna) :
         Cardinality(FilasDe(df_region, col.comuna_nom, c)) <= conteo_comuna[i].n

Resuelta(comuna) == EnCentros(Lower(Strip(comuna)))

\* C7: each of the top-N communes ends in exactly one list: in mapa_rows,
\* with the table's coordinates and its count, iff its name trimmed and
\* lower-cased is a key of COMUNA_CENTROS, and in sin_coord otherwise; a
\* miss raises nothing, and the two lists hold exactly the top-N communes.
C7_Geocoder ==
  pc \in TrasMapa =>
    /\ fault = "none"
    /\ SonLasTopN
    /\ Len(mapa_rows) + Len(sin_coord) = Len(conteo_comuna)
    /\ \A i \in 1..Len(conteo_comuna) :
         LET c == conteo_comuna[i]
         IN IF Resuelta(c.key)
            THEN /\ [lat |-> Centro(Lower(Strip(c.key))).lat,
                     lon |-> Centro(Lower(Strip(c.key))).lon,
                     comuna |-> c.key,
                     cantidad |-> c.n] \in Range(mapa_rows)
                 /\ c.key \notin Range(sin_coord)
            ELSE /\ c.key \in Range(sin_coord)
                 /\ \A j \in 1..Len(mapa_rows) : mapa_rows[j].comuna # c.key

C7_Witness ==
  /\ pc = "fin"
  /\ Cardinality(DistintasComunas) > top_n_comunas
  /\ Len(conteo_comuna) = top_n_comunas
  /\ Len(mapa_rows) = 1
  /\ mapa_rows[1].comuna # Lower(Strip(mapa_rows[1].comuna))
  /\ Len(sin_coord) = top_n_comunas - 1

\* the position of a commune in the ranking
Puesto(comuna) == CHOOSE i \in 1..Len(conteo_comuna) : conteo_comuna[i].key = comuna

\* C9: the diagnostics panel is shown only when a top-N commune is
\* unresolved, lists at most the first 20 unresolved names in ranked order,
\* and carries the truncation indicator iff more than 20 are unresolved.
C9_Diagnostics ==
  pc \in TrasMapa =>
    /\ info.visible <=> (sin_coord # <<>>)
    /\ info.visible <=> ("info" \in Range(out))
    /\ Len(info.nombres) = Min(20, Len(sin_coord))
    /\ info.nombres = SubSeq(sin_coord, 1, Len(info.nombres))
    /\ \A a, b \in 1..Len(sin_coord) :
         a < b => Puesto(sin_coord[a]) < Puesto(sin_coord[b])
    /\ \A a \in 1..Len(sin_coord) : ~Resuelta(sin_coord[a])
    /\ info.truncado <=> (Len(sin_coord) > 20)

C9_Witness ==
  /\ pc = "fin"
  /\ Len(sin_coord) > 20
  /\ info.visible
  /\ info.truncado
  /\ Len(info.nombres) = 20
  /\ mapa_rows = <<>>

\* C10: for every option of the region selector the name recovered from the
\* label is the name the label was built from, also when the name contains
\* " ("; the filtered set holds exactly the records of the selected region,
\* and its size, shown as the region metric, is the count in the label.
C10_LabelRoundTrip ==
  pc \in TrasSidebar =>
    /\ Len(regiones_sidebar) = Len(regiones_ordenadas)
    /\ \A i \in 1..Len(regiones_sidebar) :
         RSplit0(regiones_sidebar[i], Separador) = regiones_ordenadas[i]
    /\ \E i \in 1..Len(regiones_sidebar) :
         /\ region_label = regiones_sidebar[i]
         /\ region_sel = regiones_ordenadas[i]
    /\ df_region.rows =
         SelectSeq(df.rows, LAMBDA r : r[ColIdx(df.columns, col.region_nom)] = region_sel)
    /\ region_label = Etiqueta(region_sel, Len(df_region.rows))
    /\ pc # "metricas" => metricas[1] = Len(df_region.rows)

C10_Witness ==
  /\ pc = "fin"
  /\ Contains(Separador, region_sel)
  /\ metricas[1] = 2
  /\ Len(df.rows) = 3
  /\ Len(regiones_sidebar) = 2

\* the text has only ASCII characters
SoloAscii(t) == \A i \in 1..Len(t) : t[i] < 128

\* the encode or the decode step of arreglar_tildes fails on t
FallaReinterpretar(t) ==
  \/ \E i \in 1..Len(t) : t[i] > 255
  \/ Utf8Decode(t) = None

\* C8, as stated: a text that was already correctly encoded and whose
\* re-interpretation does not fail is returned unchanged; a text whose
\* encode or decode step fails is returned unchanged, nothing raised.
C8_NoDoubleTransformation ==
  (fn.op = "arreglar_tildes" /\ fn.hecho) =>
    /\ (fn.texto = fn.verdad /\ ~FallaReinterpretar(fn.texto)) => fn.ret = fn.texto
    /\ FallaReinterpretar(fn.texto) => fn.ret = fn.texto

\* C8, amended: a text of ASCII characters only, and a text whose encode or
\* decode step fails, is returned unchanged, nothing raised; every other
\* text is returned re-interpreted (the text whose UTF-8 bytes, read as
\* Latin-1, are the input), hence changed, also when it was already
\* correctly encoded.
C8_Repair ==
  (fn.op = "arreglar_tildes" /\ fn.hecho) =>
    /\ fn.ret # None
    /\ (SoloAscii(fn.texto) \/ FallaReinterpretar(fn.texto)) => fn.ret = fn.texto
    /\ (~SoloAscii(fn.texto) /\ ~FallaReinterpretar(fn.texto)) =>
         /\ fn.ret # fn.texto
         /\ Utf8LeidoLatin1(fn.ret) = fn.texto

C8_Witness ==
  /\ fn.op = "arreglar_tildes"
  /\ fn.hecho
  /\ fn.texto = fn.verdad
  /\ ~SoloAscii(fn.texto)
  /\ \A i \in 1..Len(fn.texto) : fn.texto[i] <= 255
  /\ Utf8Decode(fn.texto) = None
  /\ fn.ret = fn.texto

=============================================================================
